---- MODULE Spec2Model ----
(***************************************************************************)
(* A model of the CSP solver: validateConstraints, recursiveBacktracking,  *)
(* forwardChecking, arcConsistency, computeNeighbours and                  *)
(* removeInconsistentValues.                                               *)
(*                                                                         *)
(* Objects are modelled with a heap: a sequence of CSP records, a CSP      *)
(* reference being an index into it.  _.cloneDeep appends a copy and       *)
(* returns the new index; a function that mutates its csp argument         *)
(* rewrites the heap cell it was given.  An assignment is a function whose *)
(* DOMAIN is the set of its own keys; reading a key it does not own gives  *)
(* the member of Object.prototype of that name, if there is one, and       *)
(* undefined otherwise.  All own values are strings, compared with = as    *)
(* the code compares with ===.  csp.domains is such an object too: the     *)
(* record holds its own entries and, apart from them, its prototype, which *)
(* an assignment to csp.domains["__proto__"] replaces.                     *)
(***************************************************************************)
EXTENDS Integers, Sequences, FiniteSets, TLC

VARIABLES
  csp,         \* the caller's CSP object
  assignment,  \* the assignment the caller passes
  options,     \* the solver options of the last solve
  argStrict,    \* the strict flag of the last validateConstraints call
  argVariable,  \* the variable of the last forwardChecking call
  argValue,     \* the value of the last forwardChecking call
  pc,          \* "ready", or the function called last
  ret,         \* what the last boolean function returned: "true", "false", "undefined"
  result,      \* what the last solve returned
  threw,       \* the error the last call threw, NoError if none
  pre,         \* the caller's CSP object as it was before the last call
  prevRet,     \* ret as it was before the last call
  calls,       \* the number of propagation calls made on the CSP object
  input,       \* the CSP object as the caller constructed it
  basicCsp,    \* the caller's CSP object of the basic solver (cspBasic.ts)
  heap,        \* the CSP objects of a solve in progress, the caller's first
  stack,       \* the call stack of a solve in progress, the running call last
  returned     \* the value the call that ended last handed to its caller

searchVars == <<heap, stack, returned>>

vars == <<csp, assignment, options, argStrict, argVariable, argValue, pc, ret, result,
          threw, pre, prevRet, calls, input, basicCsp, heap, stack, returned>>

----------------------------------------------------------------------------
(* Data *)

MUST_SATISFY == "MUST_SATISFY"

MUST_BE_DISTINCT == "MUST_BE_DISTINCT"

EmptyAssignment == <<>>

\* { type: MUST_BE_DISTINCT, variables }
Distinct(variables) ==
  [type |-> MUST_BE_DISTINCT, variables |-> variables, assignment |-> EmptyAssignment]

\* { type: MUST_SATISFY, assignment }
Satisfy(target) ==
  [type |-> MUST_SATISFY, variables |-> <<>>, assignment |-> target]

\* [...arr, ...arr.map(([a, b]) => [b, a])]
RECURSIVE Reversed(_)
Reversed(arr) ==
  IF arr = <<>> THEN <<>>
  ELSE <<(<<arr[1][2], arr[1][1]>>)>> \o Reversed(Tail(arr))

copyAndReverse(arr) == arr \o Reversed(arr)

\* The prototype of an object literal: Object.prototype.
DefaultPrototype == [replaced |-> FALSE, array |-> <<>>]

\* The prototype of an object whose prototype is the array domain, as after
\* obj["__proto__"] = domain or in the literal { __proto__: domain }.
PrototypeArray(domain) == [replaced |-> TRUE, array |-> domain]

\* A CSP object.  hasArcs / hasNeighbours say whether the optional fields
\* arcs / neighbours are present on the object; domains holds the own entries
\* of csp.domains and domainsPrototype its prototype.
MakeCSP(variables, domains, constraints, hasArcs, arcs) ==
  [variables |-> variables, domains |-> domains, domainsPrototype |-> DefaultPrototype,
   constraints |-> constraints, hasArcs |-> hasArcs, arcs |-> arcs,
   hasNeighbours |-> FALSE, neighbours |-> <<>>]

RECURSIVE SeqToSet(_)
SeqToSet(s) == IF s = <<>> THEN {} ELSE {Head(s)} \cup SeqToSet(Tail(s))

\* array.includes(x)
Includes(s, x) == \E i \in 1..Len(s) : s[i] = x

\* A filter that hands back the values it keeps in reverse order.
RECURSIVE FilterOutBackwards(_, _)
FilterOutBackwards(s, value) ==
  IF s = <<>> THEN <<>>
  ELSE IF Head(s) = value THEN FilterOutBackwards(Tail(s), value)
  ELSE Append(FilterOutBackwards(Tail(s), value), Head(s))

\* array.filter((x) => x !== value)
FilterOut(s, value) == SelectSeq(s, LAMBDA x : x # value)

\* The characters of a string, which is what for-of gives for it.
Chars(s) == [i \in 1..Len(s) |-> SubSeq(s, i, i)]

\* string.includes(x) for a string x: x is a substring.
IncludesString(s, x) ==
  \E i \in 0..(Len(s) - Len(x)) : SubSeq(s, i + 1, i + Len(x)) = x

----------------------------------------------------------------------------
(* validateConstraints *)

\* The names every object literal inherits from Object.prototype.
ObjectPrototype ==
  {"constructor", "__proto__", "hasOwnProperty", "isPrototypeOf",
   "propertyIsEnumerable", "toLocaleString", "toString", "valueOf",
   "__defineGetter__", "__defineSetter__", "__lookupGetter__", "__lookupSetter__"}

\* obj[v]: the own property, else the member inherited under that name, else
\* undefined.  Two inherited members are the same object only under the same
\* name, and no inherited member is a string.
Lookup(obj, v) ==
  IF v \in DOMAIN obj THEN [kind |-> "own", value |-> obj[v]]
  ELSE IF v \in ObjectPrototype THEN [kind |-> "inherited", value |-> v]
  ELSE [kind |-> "undefined", value |-> ""]

\* typeof assignment[v] !== "undefined"
Present(a, v) == v \in DOMAIN a \/ v \in ObjectPrototype

\* The index pairs the two loops of the MUST_BE_DISTINCT case visit
\* (0-based i in 0..n-2 and j in 1..n-1, written 1-based).
DistinctLoopPairs(n) == (1..(n - 1)) \X (2..n)

\* A validator that counts a MUST_BE_DISTINCT constraint as evaluated as soon as
\* one of its variables is assigned.
DistinctRanOnOne(a, c) ==
  \E i \in 1..Len(c.variables) : Present(a, c.variables[i])

\* Some visited pair has both variables assigned (ranOnce = true).
DistinctRan(a, c) ==
  \E p \in DistinctLoopPairs(Len(c.variables)) :
    Present(a, c.variables[p[1]]) /\ Present(a, c.variables[p[2]])

\* Some visited pair has both variables assigned to equal values (return false).
DistinctFails(a, c) ==
  \E p \in DistinctLoopPairs(Len(c.variables)) :
    /\ Present(a, c.variables[p[1]])
    /\ Present(a, c.variables[p[2]])
    /\ Lookup(a, c.variables[p[1]]) = Lookup(a, c.variables[p[2]])

\* A validator that skips the MUST_SATISFY case only when no target variable
\* is assigned.
SatisfySkippedWhenNonePresent(a, c) == \A v \in DOMAIN c.assignment : ~Present(a, v)

\* The MUST_SATISFY case is skipped (continue) when a target variable is unassigned.
SatisfySkipped(a, c) == \E v \in DOMAIN c.assignment : ~Present(a, v)

\* atLeastTruthy && atLeastFalsey; assignment[v] of a key the assignment does
\* not own is undefined or an inherited member, which differs from every
\* required value.
SatisfyFails(a, c) ==
  LET atLeastTruthy ==
        \E v \in DOMAIN c.assignment :
          Lookup(a, v) = [kind |-> "own", value |-> c.assignment[v]]
      atLeastFalsey ==
        \E v \in DOMAIN c.assignment :
          Lookup(a, v) # [kind |-> "own", value |-> c.assignment[v]]
  IN  atLeastTruthy /\ atLeastFalsey

\* The loop over the constraints from index k on, with the running ranOnce.
RECURSIVE ValidateFrom(_, _, _, _, _)
ValidateFrom(a, constraints, strict, k, ranOnce) ==
  IF k > Len(constraints) THEN (IF strict THEN ranOnce ELSE TRUE)
  ELSE LET c == constraints[k] IN
    IF c.type = MUST_BE_DISTINCT
    THEN IF DistinctFails(a, c) THEN FALSE
         ELSE ValidateFrom(a, constraints, strict, k + 1,
                           ranOnce \/ DistinctRan(a, c))
    ELSE IF SatisfySkipped(a, c)
         THEN ValidateFrom(a, constraints, strict, k + 1, ranOnce)
         ELSE IF SatisfyFails(a, c) THEN FALSE
              ELSE ValidateFrom(a, constraints, strict, k + 1, TRUE)

validateConstraints(a, constraints, strict) ==
  ValidateFrom(a, constraints, strict, 1, FALSE)

----------------------------------------------------------------------------
(* The heap *)

NoError == "none"

ArcsMissing == "Must provide arcs for AC-3!"

TypeError == "TypeError"

\* Maximum call stack size exceeded.
RangeError == "RangeError"

\* A copy that hands back the object it was given.
CloneShallow(h, ref) == [heap |-> h, ref |-> ref]

\* _.cloneDeep(csp): a new object holding a copy; the heap grows by one cell.
\* The copy of csp.domains holds copies of the own entries.  lodash gives it
\* the prototype of csp.domains when typeof csp.domains.constructor is
\* "function", and makes it a plain {} otherwise: that is when csp.domains
\* has an own entry "constructor", an array, and then the copy's prototype is
\* Object.prototype whatever that of csp.domains was.
CloneDeep(h, ref) ==
  LET copy == IF "constructor" \in DOMAIN h[ref].domains
              THEN [h[ref] EXCEPT !.domainsPrototype = DefaultPrototype]
              ELSE h[ref]
  IN [heap |-> Append(h, copy), ref |-> Len(h) + 1]

\* A write that every CSP object sees, as when copies share one domains
\* object with the original.
SetDomainShared(h, ref, variable, domain) ==
  [r \in DOMAIN h |-> [h[r] EXCEPT !.domains[variable] = domain]]

\* csp.domains[variable]: the own entry; else what the prototype gives.  A
\* prototype that is an array gives itself under "__proto__" and its element,
\* a string, under an index; every other member of it or of Object.prototype
\* is a function, a number or an object without includes, find, filter or
\* iterator, as undefined is: the kind "other".
DomainKind(c, variable) ==
  IF variable \in DOMAIN c.domains THEN "array"
  ELSE IF ~c.domainsPrototype.replaced THEN "other"
  ELSE IF variable = "__proto__" THEN "array"
  ELSE IF \E i \in 1..Len(c.domainsPrototype.array) : variable = ToString(i - 1)
       THEN "string"
       ELSE "other"

\* The array csp.domains[variable] is, empty if it is none.
DomainArray(c, variable) ==
  IF variable \in DOMAIN c.domains THEN c.domains[variable]
  ELSE IF c.domainsPrototype.replaced /\ variable = "__proto__"
       THEN c.domainsPrototype.array
       ELSE <<>>

\* The string csp.domains[variable] is, empty if it is none.
DomainString(c, variable) ==
  IF DomainKind(c, variable) = "string"
  THEN c.domainsPrototype.array[CHOOSE i \in 1..Len(c.domainsPrototype.array) :
                                  variable = ToString(i - 1)]
  ELSE ""

\* csp.domains[variable] = domain: the own entry is replaced; without one,
\* the key "__proto__" runs the setter inherited from Object.prototype, which
\* makes domain the prototype and creates no entry, and any other key creates
\* the entry.
SetDomain(h, ref, variable, domain) ==
  IF variable \in DOMAIN h[ref].domains
  THEN [h EXCEPT ![ref].domains[variable] = domain]
  ELSE IF variable = "__proto__"
       THEN [h EXCEPT ![ref].domainsPrototype = PrototypeArray(domain)]
       ELSE [h EXCEPT ![ref].domains = (variable :> domain) @@ h[ref].domains]

\* A JavaScript value used as a condition: of the three values the boolean
\* functions return (true, false, undefined) only true is truthy.
Truthy(r) == r = "true"

----------------------------------------------------------------------------
(* forwardChecking *)

\* The inner loop over otherVariables from index i on.  wipeout is the early
\* "return;" taken when the value is the last one of a domain.  What
\* csp.domains gives for a variable without an entry is not an array: a string
\* has includes and length but no filter, and anything else has no includes,
\* which is a TypeError.
RECURSIVE FCOthers(_, _, _, _, _, _)
FCOthers(h, ref, value, others, i, toPropagate) ==
  IF i > Len(others)
  THEN [wipeout |-> FALSE, threw |-> NoError, heap |-> h, toPropagate |-> toPropagate]
  ELSE LET v == others[i]
           kind == DomainKind(h[ref], v)
           domain == DomainArray(h[ref], v)
           string == DomainString(h[ref], v)
       IN IF kind = "other"
          THEN [wipeout |-> FALSE, threw |-> TypeError, heap |-> h,
                toPropagate |-> toPropagate]
          ELSE IF kind = "string"
          THEN IF ~IncludesString(string, value)
               THEN FCOthers(h, ref, value, others, i + 1, toPropagate)
               ELSE IF Len(string) = 1
                    THEN [wipeout |-> TRUE, threw |-> NoError, heap |-> h,
                          toPropagate |-> toPropagate]
                    ELSE [wipeout |-> FALSE, threw |-> TypeError, heap |-> h,
                          toPropagate |-> toPropagate]
          ELSE IF ~Includes(domain, value)
          THEN FCOthers(h, ref, value, others, i + 1, toPropagate)
          ELSE IF Len(domain) = 1
               THEN [wipeout |-> TRUE, threw |-> NoError, heap |-> h,
                     toPropagate |-> toPropagate]
               ELSE LET filtered == FilterOut(domain, value)
                        h2 == SetDomain(h, ref, v, filtered)
                    IN FCOthers(h2, ref, value, others, i + 1,
                                IF Len(filtered) = 1
                                THEN Append(toPropagate, <<v, filtered[1]>>)
                                ELSE toPropagate)

\* The loop over csp.constraints from index k on.
RECURSIVE FCScan(_, _, _, _, _, _)
FCScan(h, ref, variable, value, k, toPropagate) ==
  IF k > Len(h[ref].constraints)
  THEN [wipeout |-> FALSE, threw |-> NoError, heap |-> h, toPropagate |-> toPropagate]
  ELSE LET c == h[ref].constraints[k] IN
    IF c.type = MUST_BE_DISTINCT /\ Includes(c.variables, variable)
    THEN LET otherVariables == SelectSeq(c.variables, LAMBDA v : v # variable)
             r == FCOthers(h, ref, value, otherVariables, 1, toPropagate)
         IN IF r.wipeout \/ r.threw # NoError THEN r
            ELSE FCScan(r.heap, ref, variable, value, k + 1, r.toPropagate)
    ELSE FCScan(h, ref, variable, value, k + 1, toPropagate)

\* An update that takes the value out of the variable's own domain.
CollapseDroppingValue(h, ref, variable, value) ==
  SetDomain(h, ref, variable, FilterOut(DomainArray(h[ref], variable), value))

\* csp.domains[variable] = [value]
Collapse(h, ref, variable, value) == SetDomain(h, ref, variable, <<value>>)

RECURSIVE forwardChecking(_, _, _, _)

\* A cascade that forward-checks the CSP object itself instead of copies.
RECURSIVE FCPropagateInPlace(_, _, _, _)
FCPropagateInPlace(h, ref, toPropagate, i) ==
  IF i > Len(toPropagate) THEN [ret |-> "false", threw |-> NoError, heap |-> h]
  ELSE LET r == forwardChecking(h, ref, toPropagate[i][1], toPropagate[i][2])
       IN IF r.threw # NoError THEN r
          ELSE IF Truthy(r.ret) THEN [ret |-> "true", threw |-> NoError, heap |-> r.heap]
          ELSE FCPropagateInPlace(r.heap, ref, toPropagate, i + 1)

\* !!assignmentsToPropagate.find(([variable, value]) =>
\*     forwardChecking(_.cloneDeep(csp), variable, value))
RECURSIVE FCPropagate(_, _, _, _)
FCPropagate(h, ref, toPropagate, i) ==
  IF i > Len(toPropagate) THEN [ret |-> "false", threw |-> NoError, heap |-> h]
  ELSE LET cl == CloneDeep(h, ref)
           r == forwardChecking(cl.heap, cl.ref, toPropagate[i][1], toPropagate[i][2])
       IN IF r.threw # NoError THEN r
          ELSE IF Truthy(r.ret) THEN [ret |-> "true", threw |-> NoError, heap |-> r.heap]
          ELSE FCPropagate(r.heap, ref, toPropagate, i + 1)

\* A forward check that returns true where forwardChecking takes its bare
\* return.
forwardCheckingSignalling(h, ref, variable, value) ==
  LET h1 == Collapse(h, ref, variable, value)
      scan == FCScan(h1, ref, variable, value, 1, <<>>)
  IN IF scan.threw # NoError
     THEN [ret |-> "none", threw |-> scan.threw, heap |-> scan.heap]
     ELSE IF scan.wipeout THEN [ret |-> "true", threw |-> NoError, heap |-> scan.heap]
     ELSE IF Len(scan.toPropagate) > 0
          THEN FCPropagate(scan.heap, ref, scan.toPropagate, 1)
          ELSE [ret |-> "false", threw |-> NoError, heap |-> scan.heap]

forwardChecking(h, ref, variable, value) ==
  LET h1 == Collapse(h, ref, variable, value)
      scan == FCScan(h1, ref, variable, value, 1, <<>>)
  IN IF scan.threw # NoError
     THEN [ret |-> "none", threw |-> scan.threw, heap |-> scan.heap]
     ELSE IF scan.wipeout THEN [ret |-> "undefined", threw |-> NoError, heap |-> scan.heap]
     ELSE IF Len(scan.toPropagate) > 0
          THEN FCPropagate(scan.heap, ref, scan.toPropagate, 1)
          ELSE [ret |-> "false", threw |-> NoError, heap |-> scan.heap]

\* forwardChecking(csp, undefined, value): line 366 writes under the key
\* "undefined"; the variables of a constraint are strings, none of which is
\* undefined (line 373), so that nothing is pruned and the call returns false.
forwardCheckingOfUndefined(h, ref, value) ==
  [ret |-> "false", threw |-> NoError, heap |-> Collapse(h, ref, "undefined", value)]

----------------------------------------------------------------------------
(* arcConsistency *)

\* The loop of computeNeighbours over csp.arcs.  csp.neighbours[a] of a name
\* the record does not own is undefined, or the member inherited under that
\* name, which is truthy and has no push: a TypeError, the record staying as
\* it was built so far.
RECURSIVE AddArcs(_, _)
AddArcs(nb, arcs) ==
  IF arcs = <<>> THEN [neighbours |-> nb, threw |-> NoError]
  ELSE LET a == arcs[1][1]
           b == arcs[1][2]
       IN IF a \in DOMAIN nb
          THEN AddArcs([nb EXCEPT ![a] = Append(@, b)], Tail(arcs))
          ELSE IF a \in ObjectPrototype
               THEN [neighbours |-> nb, threw |-> TypeError]
               ELSE AddArcs([v \in (DOMAIN nb) \cup {a} |->
                               IF v = a THEN <<b>> ELSE nb[v]],
                            Tail(arcs))

computeNeighbours(h, ref) ==
  IF h[ref].hasArcs /\ ~h[ref].hasNeighbours
  THEN LET r == AddArcs(<<>>, h[ref].arcs)
       IN [heap |-> [h EXCEPT ![ref].hasNeighbours = TRUE,
                              ![ref].neighbours = r.neighbours],
           threw |-> r.threw]
  ELSE [heap |-> h, threw |-> NoError]

\* { [x]: valueX, [y]: valueY }: with x = y the later key wins.
PairAssignment(x, valueX, y, valueY) ==
  [v \in {x, y} |-> IF v = y THEN valueY ELSE valueX]

\* A revise step that keeps a value only if every value of y supports it.
HasSupportOfAll(c, x, valueX, y) ==
  LET ys == DomainArray(c, y)
  IN \A j \in 1..Len(ys) :
       validateConstraints(PairAssignment(x, valueX, y, ys[j]), c.constraints, TRUE)

\* csp.domains[y].find((valueY) => validateConstraints({..}, constraints, true))
\* finds a value, for csp.domains[y] an array.
HasSupport(c, x, valueX, y) ==
  LET ys == DomainArray(c, y)
  IN \E j \in 1..Len(ys) :
       validateConstraints(PairAssignment(x, valueX, y, ys[j]), c.constraints, TRUE)

\* The loop over the values of csp.domains[x] as it was when the loop started
\* (xs); the domains read inside are the current ones.  Only an array has find
\* (csp.domains[y]) and filter (csp.domains[x]): otherwise a TypeError.
RECURSIVE RIVLoop(_, _, _, _, _, _, _)
RIVLoop(h, ref, x, y, xs, i, removed) ==
  IF i > Len(xs) THEN [removed |-> removed, threw |-> NoError, heap |-> h]
  ELSE IF DomainKind(h[ref], y) # "array"
       THEN [removed |-> removed, threw |-> TypeError, heap |-> h]
  ELSE IF HasSupport(h[ref], x, xs[i], y)
       THEN RIVLoop(h, ref, x, y, xs, i + 1, removed)
  ELSE IF DomainKind(h[ref], x) # "array"
       THEN [removed |-> removed, threw |-> TypeError, heap |-> h]
       ELSE RIVLoop(SetDomain(h, ref, x, FilterOut(DomainArray(h[ref], x), xs[i])),
                    ref, x, y, xs, i + 1, TRUE)

\* for (const valueX of csp.domains[x]): an array gives its values and a string
\* its characters; anything else cannot be iterated: a TypeError.
removeInconsistentValues(h, ref, x, y) ==
  LET kind == DomainKind(h[ref], x)
  IN IF kind = "other"
     THEN [removed |-> FALSE, threw |-> TypeError, heap |-> h]
     ELSE RIVLoop(h, ref, x, y,
                  IF kind = "string" THEN Chars(DomainString(h[ref], x))
                  ELSE DomainArray(h[ref], x), 1, FALSE)

\* A map that queues the arcs leaving x, [x, b], instead of those entering it.
RECURSIVE ArcsOutOf(_, _)
ArcsOutOf(bs, x) ==
  IF bs = <<>> THEN <<>> ELSE <<(<<x, bs[1]>>)>> \o ArcsOutOf(Tail(bs), x)

\* csp.neighbours![x].map((b) => [b, x])
RECURSIVE ArcsInto(_, _)
ArcsInto(bs, x) ==
  IF bs = <<>> THEN <<>> ELSE <<(<<bs[1], x>>)>> \o ArcsInto(Tail(bs), x)

\* A worklist step that never queues an arc again.
RequeueNothing(queue, bs, x) == Tail(queue)

\* queue.shift() followed by queue.push(...csp.neighbours![x].map((b) => [b, x]))
Requeue(queue, bs, x) == Tail(queue) \o ArcsInto(bs, x)

\* while (queue.length) { ... }
RECURSIVE ACLoop(_, _, _)
ACLoop(h, ref, queue) ==
  IF queue = <<>> THEN [ret |-> "false", threw |-> NoError, heap |-> h]
  ELSE LET x == queue[1][1]
           y == queue[1][2]
           r == removeInconsistentValues(h, ref, x, y)
       IN IF r.threw # NoError
          THEN [ret |-> "none", threw |-> r.threw, heap |-> r.heap]
          ELSE IF ~r.removed THEN ACLoop(r.heap, ref, Tail(queue))
          ELSE IF Len(DomainArray(r.heap[ref], x)) = 0
               THEN [ret |-> "true", threw |-> NoError, heap |-> r.heap]
               ELSE IF x \notin DOMAIN r.heap[ref].neighbours
                    THEN [ret |-> "none", threw |-> TypeError, heap |-> r.heap]
                    ELSE ACLoop(r.heap, ref,
                                Requeue(queue, r.heap[ref].neighbours[x], x))

\* An arcConsistency without the prerequisite assertion.
arcConsistencyUnasserted(h, ref) ==
  LET cn == computeNeighbours(h, ref)
  IN IF cn.threw # NoError
     THEN [ret |-> "none", threw |-> cn.threw, heap |-> cn.heap]
     ELSE ACLoop(cn.heap, ref, cn.heap[ref].arcs)

arcConsistency(h, ref) ==
  IF ~h[ref].hasArcs
  THEN [ret |-> "none", threw |-> ArcsMissing, heap |-> h]
  ELSE LET cn == computeNeighbours(h, ref)
       IN IF cn.threw # NoError
          THEN [ret |-> "none", threw |-> cn.threw, heap |-> cn.heap]
          ELSE ACLoop(cn.heap, ref, cn.heap[ref].arcs)

----------------------------------------------------------------------------
(* recursiveBacktracking *)

Absent(h) == [found |-> FALSE, assignment |-> EmptyAssignment, threw |-> NoError, heap |-> h]

Found(h, a) == [found |-> TRUE, assignment |-> a, threw |-> NoError, heap |-> h]

Thrown(h, e) == [found |-> FALSE, assignment |-> EmptyAssignment, threw |-> e, heap |-> h]

\* A spread that leaves out the new key.
ExtendNothing(a, variable, value) == a

\* { ...assignment, [variable]: value }
Extend(a, variable, value) ==
  [v \in (DOMAIN a) \cup {variable} |-> IF v = variable THEN value ELSE a[v]]

\* A search that picks the last unassigned variable.
LastUnassigned(variables, a) ==
  IF \E i \in 1..Len(variables) : ~Present(a, variables[i])
  THEN CHOOSE i \in 1..Len(variables) :
         /\ ~Present(a, variables[i])
         /\ \A j \in (i + 1)..Len(variables) : Present(a, variables[j])
  ELSE 0

\* csp.variables.find((variable) => typeof assignment[variable] === "undefined"):
\* the index of the first unassigned variable, 0 when find gives undefined.
FirstUnassigned(variables, a) ==
  IF \E i \in 1..Len(variables) : ~Present(a, variables[i])
  THEN CHOOSE i \in 1..Len(variables) :
         /\ ~Present(a, variables[i])
         /\ \A j \in 1..(i - 1) : Present(a, variables[j])
  ELSE 0

\* The key unassignedVariable stands for in csp.domains[unassignedVariable]
\* and in { ...assignment, [unassignedVariable]: value }: the variable find
\* gave or, when it gave undefined, the key "undefined".
PickedKey(variables, k) == IF k = 0 THEN "undefined" ELSE variables[k]

RECURSIVE recursiveBacktrackingWithin(_, _, _, _, _)
RECURSIVE RBValues(_, _, _, _, _, _, _, _, _)

\* The loop over the values of csp.domains[unassignedVariable] (as it was when
\* the loop started) from index i on.  named says that find gave a variable,
\* which is then what forwardChecking is called with; otherwise it is called
\* with undefined.
RBValues(h, ref, a, o, named, variable, values, i, seen) ==
  IF i > Len(values) THEN Absent(h)
  ELSE LET value == values[i]
           newAssignment == Extend(a, variable, value)
       IN IF ~validateConstraints(newAssignment, h[ref].constraints, FALSE)
          THEN RBValues(h, ref, a, o, named, variable, values, i + 1, seen)
          ELSE LET cl == CloneDeep(h, ref)
                   fc == IF ~o.forwardChecking
                         THEN [ret |-> "false", threw |-> NoError, heap |-> cl.heap]
                         ELSE IF named
                              THEN forwardChecking(cl.heap, cl.ref, variable, value)
                              ELSE forwardCheckingOfUndefined(cl.heap, cl.ref, value)
               IN IF fc.threw # NoError THEN Thrown(fc.heap, fc.threw)
                  ELSE IF o.forwardChecking /\ Truthy(fc.ret) THEN Absent(fc.heap)
                  ELSE LET r == recursiveBacktrackingWithin(fc.heap, cl.ref,
                                                            newAssignment, o, seen)
                       IN IF r.threw # NoError \/ r.found THEN r
                          ELSE RBValues(r.heap, ref, a, o, named, variable, values,
                                        i + 1, seen)

\* From "Pick an unassigned variable" on, for the csp the call works on.  The
\* loop goes through the values of an array or the characters of a string;
\* anything else csp.domains gives cannot be iterated: a TypeError.
\* When the key is one the assignment holds already, the calls nested in the
\* loop work on assignments with the same keys; seen holds the states (CSP
\* object and assignment) from which the calls this one is nested in began
\* such a loop.  A call that begins it from one of them repeats what they did:
\* the recursion does not end, and the call stack overflows.
RBSearch(h, ref, a, o, seen) ==
  LET k == FirstUnassigned(h[ref].variables, a)
      variable == PickedKey(h[ref].variables, k)
      kind == DomainKind(h[ref], variable)
      values == IF kind = "string" THEN Chars(DomainString(h[ref], variable))
                ELSE DomainArray(h[ref], variable)
      state == <<h[ref], a>>
  IN IF kind = "other" THEN Thrown(h, TypeError)
     ELSE IF variable \notin DOMAIN a
          THEN RBValues(h, ref, a, o, k # 0, variable, values, 1, seen)
          ELSE IF state \in seen THEN Thrown(h, RangeError)
               ELSE RBValues(h, ref, a, o, k # 0, variable, values, 1,
                             seen \cup {state})

\* recursiveBacktracking called from a loop of the calls that began from seen.
recursiveBacktrackingWithin(h, ref, a, o, seen) ==
  IF Cardinality(DOMAIN a) = Len(h[ref].variables) THEN Found(h, a)
  ELSE IF o.arcConsistency
       THEN LET cl == CloneDeep(h, ref)
                ac == arcConsistency(cl.heap, cl.ref)
            IN IF ac.threw # NoError THEN Thrown(ac.heap, ac.threw)
               ELSE IF Truthy(ac.ret) THEN Absent(ac.heap)
                    ELSE RBSearch(ac.heap, cl.ref, a, o, seen)
       ELSE RBSearch(h, ref, a, o, seen)

recursiveBacktracking(h, ref, a, o) == recursiveBacktrackingWithin(h, ref, a, o, {})

----------------------------------------------------------------------------
(* The sample problems *)

AUSTRALIA_VARIABLES == <<"WA", "NT", "Q", "NSW", "V", "SA", "T">>

\* An Australia map on which SA and NT do not share a border.
AustraliaPairsWithoutSANT ==
  << <<"SA", "WA">>, <<"SA", "Q">>, <<"SA", "NSW">>, <<"SA", "V">>,
     <<"WA", "NT">>, <<"NT", "Q">>, <<"Q", "NSW">>, <<"NSW", "V">> >>

\* The pairs of the nine MUST_BE_DISTINCT constraints and of csp.arcs.
AustraliaPairs ==
  << <<"SA", "WA">>, <<"SA", "NT">>, <<"SA", "Q">>, <<"SA", "NSW">>, <<"SA", "V">>,
     <<"WA", "NT">>, <<"NT", "Q">>, <<"Q", "NSW">>, <<"NSW", "V">> >>

Australia ==
  MakeCSP(AUSTRALIA_VARIABLES,
          [v \in SeqToSet(AUSTRALIA_VARIABLES) |-> <<"red", "green", "blue">>],
          [i \in 1..Len(AustraliaPairs) |-> Distinct(AustraliaPairs[i])],
          TRUE, copyAndReverse(AustraliaPairs))

LionUnicorn ==
  MakeCSP(<<"today", "lion", "unicorn">>,
          [v \in {"today", "lion", "unicorn"} |->
             IF v = "today"
             THEN <<"Monday", "Tuesday", "Wednesday", "Thursday", "Friday",
                    "Saturday", "Sunday">>
             ELSE <<"true", "false">>],
          << Satisfy([v \in {"lion", "today"} |-> IF v = "lion" THEN "true" ELSE "Thursday"]),
             Satisfy([v \in {"lion", "today"} |-> IF v = "lion" THEN "false" ELSE "Monday"]),
             Satisfy([v \in {"unicorn", "today"} |-> IF v = "unicorn" THEN "true" ELSE "Sunday"]),
             Satisfy([v \in {"unicorn", "today"} |-> IF v = "unicorn" THEN "false" ELSE "Thursday"]) >>,
          TRUE, copyAndReverse(<< <<"lion", "today">>, <<"unicorn", "today">> >>))

----------------------------------------------------------------------------
(* Bounds and the generic problems *)

\* Values per generic domain.
NumVals == 2

\* Constraints per generic problem.
MaxConstraints == 2

\* Propagation calls (forwardChecking, arcConsistency) made in a row on one CSP.
MaxCalls == 2

\* The names of the generic variables; none is a member of ObjectPrototype.
GenVars == <<"a", "b", "c">>

GenVarSet == SeqToSet(GenVars)

ValNames == <<"1", "2", "3", "4">>

GenVals == SubSeq(ValNames, 1, NumVals)

\* The values a generic constraint target and a caller's assignment use.
TargetVals == {"1", "2"}

\* The elements of s at the indices in S, in order.
RECURSIVE Pick(_, _, _)
Pick(s, S, i) ==
  IF i > Len(s) THEN <<>>
  ELSE (IF i \in S THEN <<s[i]>> ELSE <<>>) \o Pick(s, S, i + 1)

RECURSIVE Reverse(_)
Reverse(s) == IF s = <<>> THEN <<>> ELSE Append(Reverse(Tail(s)), Head(s))

\* A generic domain: values in ascending order, some left out, or all in
\* descending order.
DomainChoices ==
  {Pick(GenVals, S, 1) : S \in SUBSET (1..NumVals)} \cup {Reverse(GenVals)}

\* Partial assignments of the generic variables.
PartialAssignments ==
  UNION {[D -> TargetVals] : D \in SUBSET GenVarSet}

Pair(x, vx, y, vy) == [v \in {x, y} |-> IF v = x THEN vx ELSE vy]

Options == [forwardChecking : BOOLEAN, arcConsistency : BOOLEAN]

NoResult == [found |-> FALSE, assignment |-> EmptyAssignment]

BoolStr(b) == IF b THEN "true" ELSE "false"

\* No call has ended yet.
NoReturn == [fn |-> "none", ret |-> "none", found |-> FALSE, assignment |-> EmptyAssignment]

\* The state before the first call, for the CSP object c, the CSP object b of
\* the basic solver and the assignment a.
InitBoth(c, b, a) ==
  /\ csp = c
  /\ basicCsp = b
  /\ heap = <<c>>
  /\ stack = <<>>
  /\ returned = NoReturn
  /\ assignment = a
  /\ options = [forwardChecking |-> FALSE, arcConsistency |-> FALSE]
  /\ argStrict = FALSE
  /\ argVariable = ""
  /\ argValue = ""
  /\ pc = "ready"
  /\ ret = "none"
  /\ result = NoResult
  /\ threw = NoError
  /\ pre = c
  /\ prevRet = "none"
  /\ calls = 0
  /\ input = c

\* The programs of cspBasic.ts are not part of a run on c alone.
NoBasicCsp == [variables |-> <<>>, domains |-> <<>>, constraints |-> "none"]

InitWith(c, a) == InitBoth(c, NoBasicCsp, a)

----------------------------------------------------------------------------
(* Operations *)

\* validateConstraints(assignment, csp.constraints, s)
Validate ==
  /\ pc \notin {"validateConstraints", "recursiveBacktracking"}
  /\ threw = NoError
  /\ \E s \in BOOLEAN :
       /\ argStrict' = s
       /\ ret' = BoolStr(validateConstraints(assignment, csp.constraints, s))
  /\ pc' = "validateConstraints"
  /\ pre' = csp
  /\ prevRet' = ret
  /\ UNCHANGED <<csp, assignment, options, argVariable, argValue, result, threw, calls, input,
               basicCsp, searchVars>>

\* forwardChecking(csp, v, x) with x a value of v's current domain or, when
\* csp.domains gives no array for v, any value
ForwardCheck ==
  /\ pc \notin {"validateConstraints", "recursiveBacktracking"}
  /\ threw = NoError
  /\ calls < MaxCalls
  /\ \E i \in 1..Len(csp.variables) :
       LET v == csp.variables[i]
       IN \E x \in (IF DomainKind(csp, v) = "array"
                   THEN SeqToSet(DomainArray(csp, v)) ELSE TargetVals) :
            LET r == forwardChecking(<<csp>>, 1, v, x)
            IN /\ argVariable' = v
               /\ argValue' = x
               /\ csp' = r.heap[1]
               /\ ret' = r.ret
               /\ threw' = r.threw
  /\ pc' = "forwardChecking"
  /\ pre' = csp
  /\ prevRet' = ret
  /\ calls' = calls + 1
  /\ UNCHANGED <<assignment, options, argStrict, result, input, basicCsp, searchVars>>

\* arcConsistency(csp)
ArcConsistency ==
  /\ pc \notin {"validateConstraints", "recursiveBacktracking"}
  /\ threw = NoError
  /\ calls < MaxCalls
  /\ LET r == arcConsistency(<<csp>>, 1)
     IN /\ csp' = r.heap[1]
        /\ ret' = r.ret
        /\ threw' = r.threw
  /\ pc' = "arcConsistency"
  /\ pre' = csp
  /\ prevRet' = ret
  /\ calls' = calls + 1
  /\ UNCHANGED <<assignment, options, argStrict, argVariable, argValue, result, input,
               basicCsp, searchVars>>

\* recursiveBacktracking(csp, assignment, o)
Solve ==
  /\ pc \notin {"validateConstraints", "recursiveBacktracking"}
  /\ threw = NoError
  /\ \E o \in Options :
       \E r \in {recursiveBacktracking(<<csp>>, 1, assignment, o)} :
         /\ options' = o
         /\ csp' = r.heap[1]
         /\ result' = [found |-> r.found, assignment |-> r.assignment]
         /\ threw' = r.threw
  /\ pc' = "recursiveBacktracking"
  /\ pre' = csp
  /\ prevRet' = ret
  /\ ret' = "none"
  /\ UNCHANGED <<assignment, argStrict, argVariable, argValue, calls, input, basicCsp, searchVars>>

----------------------------------------------------------------------------
(* Problems the operations are run on *)

\* The constraints a generic problem draws from.
Pool ==
  << Distinct(<<"a", "b">>),
     Distinct(<<"b", "c">>),
     Distinct(<<"a", "b", "c">>),
     Satisfy(Pair("a", "1", "b", "1")),
     Satisfy(Pair("a", "1", "b", "2")),
     Satisfy(Pair("b", "2", "c", "1")),
     Satisfy([v \in {"a"} |-> "1"]),
     Satisfy([v \in GenVarSet |-> "1"]) >>

\* The constraints a problem handed to forwardChecking draws from.
FCPool ==
  << Distinct(<<"a", "b">>),
     Distinct(<<"b", "c">>),
     Distinct(<<"a", "c">>),
     Distinct(<<"a", "b", "c">>),
     Satisfy(Pair("a", "1", "b", "1")) >>

\* Constraint lists: at most MaxConstraints constraints of a pool, in pool order.
ListsOf(pool) ==
  {Pick(pool, S, 1) :
     S \in {T \in SUBSET (1..Len(pool)) : Cardinality(T) <= MaxConstraints}}

GenConstraintLists == ListsOf(Pool)

GenDomains == [GenVarSet -> DomainChoices]

\* The variables a constraint is over.
ConstraintVars(c) ==
  IF c.type = MUST_BE_DISTINCT THEN SeqToSet(c.variables) ELSE DOMAIN c.assignment

GenPairs == << <<"a", "b">>, <<"a", "c">>, <<"b", "c">> >>

\* The pairs of generic variables that share a constraint.
SharedPairs(constraints) ==
  Pick(GenPairs,
       {k \in 1..Len(GenPairs) :
          \E i \in 1..Len(constraints) :
            {GenPairs[k][1], GenPairs[k][2]} \subseteq ConstraintVars(constraints[i])},
       1)

\* A generic problem with the arc list of its constraint graph (both directions),
\* with the forward arcs only, or with no arc list.
GenCSP(domains, constraints, arcKind) ==
  MakeCSP(GenVars, domains, constraints, arcKind # "none",
          IF arcKind = "closure" THEN copyAndReverse(SharedPairs(constraints))
          ELSE IF arcKind = "forward" THEN SharedPairs(constraints)
          ELSE <<>>)

\* Three values in neither ascending nor descending order.
Shuffled == <<"3", "1", "2">>

\* Variables named like keys csp.domains answers without an entry of its own.
ProtoVars == <<"__proto__", "0", "a">>

ProtoPool ==
  << Distinct(<<"__proto__", "0">>),
     Distinct(<<"__proto__", "a">>),
     Distinct(<<"0", "a">>) >>

\* The own entries of csp.domains: one for a, and one or none for the others.
ProtoEntries ==
  UNION {[D -> {<<"1", "2">>, <<"1">>, <<"2">>}] :
           D \in {S \in SUBSET SeqToSet(ProtoVars) : "a" \in S}}

\* The prototype of csp.domains: Object.prototype, or an array, as the
\* literal { __proto__: [...] } makes it.
ProtoPrototypes ==
  {DefaultPrototype} \cup {PrototypeArray(d) : d \in {<<"1", "2">>, <<"1">>, <<"2">>}}

ProtoCSP(entries, prototype, constraints) ==
  [MakeCSP(ProtoVars, entries, constraints, FALSE, <<>>)
     EXCEPT !.domainsPrototype = prototype]

\* Problems whose csp.domains has an own entry "constructor", with
\* Object.prototype or an array as prototype.
ConstructorVars == <<"a", "constructor", "__proto__">>

ConstructorPool ==
  << Distinct(<<"a", "constructor">>),
     Distinct(<<"constructor", "__proto__">>),
     Distinct(<<"a", "__proto__">>) >>

ConstructorCSP(entries, prototype, constraints) ==
  [MakeCSP(ConstructorVars, entries, constraints, FALSE, <<>>)
     EXCEPT !.domainsPrototype = prototype]

\* A domain of a problem handed to forwardChecking: no value, the first or the
\* last value alone, or all values in ascending, descending or shuffled order.
FCDomainChoices ==
  {<<>>, <<GenVals[1]>>, <<GenVals[NumVals]>>, GenVals, Reverse(GenVals), Shuffled}

\* The generic problems and the problems over ProtoVars and ConstructorVars.
InitFC ==
  \/ \E d \in [GenVarSet -> FCDomainChoices], cs \in ListsOf(FCPool) :
       InitWith(GenCSP(d, cs, "none"), EmptyAssignment)
  \/ \E e \in ProtoEntries, p \in ProtoPrototypes, cs \in ListsOf(ProtoPool) :
       InitWith(ProtoCSP(e, p, cs), EmptyAssignment)
  \/ \E e \in [{"a", "constructor"} -> {<<"1", "2">>, <<"1">>, <<"2">>}],
        p \in ProtoPrototypes, cs \in ListsOf(ConstructorPool) :
       InitWith(ConstructorCSP(e, p, cs), EmptyAssignment)

\* One constraint of any shape: a distinctness constraint over two or more
\* different variables in any order, or a target over any variables.
AllConstraints ==
  {Distinct(vs) :
     vs \in {f \in UNION {[1..n -> GenVarSet] : n \in 2..Len(GenVars)} :
               \A i, j \in DOMAIN f : i # j => f[i] # f[j]}}
  \cup {Satisfy(t) : t \in PartialAssignments}

FullDomains == [v \in GenVarSet |-> GenVals]

InitValidate ==
  \E a \in PartialAssignments,
     cs \in GenConstraintLists \cup {<<c>> : c \in AllConstraints} :
    InitWith(GenCSP(FullDomains, cs, "none"), a)

\* The domains a generic problem handed to solve starts from: all values in
\* ascending or descending order, the last value alone, or no value.
SolveDomainChoices == {GenVals, Reverse(GenVals), <<GenVals[NumVals]>>, <<>>}

\* The assignment of the pre-seeded Australia test: { WA: "red", Q: "green" }.
RedGreen == Pair("WA", "red", "Q", "green")

\* AustraliaFailureCase: a copy of Australia on which forwardChecking was run
\* for WA = red and then for Q = green.
AustraliaFailureCase ==
  LET copy == CloneDeep(<<Australia>>, 1)
      first == forwardChecking(copy.heap, copy.ref, "WA", "red")
      second == forwardChecking(first.heap, copy.ref, "Q", "green")
  IN second.heap[copy.ref]

InitSolve ==
  \/ \E d \in [GenVarSet -> SolveDomainChoices], cs \in GenConstraintLists,
        k \in {"none", "closure"} :
       InitWith(GenCSP(d, cs, k), EmptyAssignment)
  \/ \E cs \in GenConstraintLists, a \in PartialAssignments :
       InitWith(GenCSP(FullDomains, cs, "closure"), a)
  \/ InitWith(LionUnicorn, EmptyAssignment)
  \/ InitWith(Australia, EmptyAssignment)
  \/ InitWith(AustraliaFailureCase, RedGreen)

InitAC ==
  \/ \E d \in GenDomains, cs \in GenConstraintLists :
       InitWith(GenCSP(d, cs, "closure"), EmptyAssignment)
  \/ \E d \in [GenVarSet -> SolveDomainChoices], cs \in GenConstraintLists,
        k \in {"forward", "none"} :
       InitWith(GenCSP(d, cs, k), EmptyAssignment)

InitSpec ==
  \/ InitWith(LionUnicorn, EmptyAssignment)
  \/ \E cs \in GenConstraintLists :
       InitWith(GenCSP(FullDomains, cs, "closure"), EmptyAssignment)

Next == Validate \/ ForwardCheck \/ ArcConsistency \/ Solve

Spec == InitSpec /\ [][Next]_vars

\* Problems with and without an arc list, with any assignment.
InitArcs ==
  \E cs \in GenConstraintLists, k \in {"none", "closure"},
     a \in {[v \in D |-> "1"] : D \in SUBSET GenVarSet} :
    InitWith(GenCSP(FullDomains, cs, k), a)

SpecArcs == InitArcs /\ [][ArcConsistency \/ Solve]_vars

SpecValidate == InitValidate /\ [][Validate]_vars

SpecSolve == InitSolve /\ [][Solve]_vars

SpecFC == InitFC /\ [][ForwardCheck]_vars

SpecAC == InitAC /\ [][ArcConsistency]_vars

----------------------------------------------------------------------------
(* Claims about recursiveBacktracking *)

Solved == pc = "recursiveBacktracking" /\ threw = NoError

Plain(o) == ~o.forwardChecking /\ ~o.arcConsistency

VarSet(c) == SeqToSet(c.variables)

\* C1: whatever the options and the assignment passed in, a result of solve
\* assigns every variable of csp.variables and passes validateConstraints
\* non-strictly.
C1_ResultCompleteAndValid ==
  (Solved /\ result.found) =>
    /\ VarSet(pre) \subseteq DOMAIN result.assignment
    /\ validateConstraints(result.assignment, pre.constraints, FALSE)

\* The complete assignments that draw each variable's value from its domain.
CompleteAssignments(c) ==
  {f \in [VarSet(c) -> UNION {SeqToSet(c.domains[v]) : v \in VarSet(c)}] :
     \A v \in VarSet(c) : f[v] \in SeqToSet(c.domains[v])}

\* The complete assignments that pass every constraint.
Solutions(c) ==
  {f \in CompleteAssignments(c) : validateConstraints(f, c.constraints, FALSE)}

\* The position of x in the sequence s.
IndexOf(s, x) == CHOOSE i \in 1..Len(s) : s[i] = x /\ \A j \in 1..(i - 1) : s[j] # x

\* f comes before g: at the first variable, in the order of csp.variables, where
\* they differ, f holds the value that comes first in that variable's domain.
LexBefore(c, f, g) ==
  \E i \in 1..Len(c.variables) :
    /\ \A j \in 1..(i - 1) : f[c.variables[j]] = g[c.variables[j]]
    /\ IndexOf(c.domains[c.variables[i]], f[c.variables[i]])
         < IndexOf(c.domains[c.variables[i]], g[c.variables[i]])

\* C2: plain backtracking from the empty assignment returns absent exactly when
\* no complete assignment drawn from the domains passes the constraints, and
\* otherwise the passing assignment that is first in lexicographic order.
C2_PlainFindsFirstSolution ==
  (Solved /\ Plain(options) /\ assignment = EmptyAssignment) =>
    LET sols == Solutions(pre)
    IN /\ result.found <=> sols # {}
       /\ result.found =>
            /\ result.assignment \in sols
            /\ \A g \in sols : g = result.assignment \/ LexBefore(pre, result.assignment, g)

\* A plain search from the empty assignment that had to go past a first value.
C2_Witness ==
  /\ Solved /\ Plain(options) /\ assignment = EmptyAssignment
  /\ result.found
  /\ \E v \in VarSet(pre) : result.assignment[v] # pre.domains[v][1]
  /\ Cardinality(Solutions(pre)) > 1

----------------------------------------------------------------------------
(* Claims about validateConstraints *)

Validated == pc = "validateConstraints"

OnlyConstraint == csp.constraints[1]

\* C3: for one MUST_BE_DISTINCT constraint over two or more variables, the
\* non-strict result is false exactly when two different variables of the
\* constraint are both assigned and hold equal values.
C3_DistinctFalseIffEqualPair ==
  (/\ Validated /\ ~argStrict
   /\ Len(csp.constraints) = 1
   /\ OnlyConstraint.type = MUST_BE_DISTINCT) =>
    (ret = "false" <=>
       \E x, y \in SeqToSet(OnlyConstraint.variables) :
         /\ x # y
         /\ x \in DOMAIN assignment /\ y \in DOMAIN assignment
         /\ assignment[x] = assignment[y])

\* The target variables that are assigned, those of them that hold the required
\* value and those that hold another one.
TargetPresent == (DOMAIN OnlyConstraint.assignment) \cap (DOMAIN assignment)

TargetMatched == {v \in TargetPresent : assignment[v] = OnlyConstraint.assignment[v]}

TargetMissed == {v \in TargetPresent : assignment[v] # OnlyConstraint.assignment[v]}

OneSatisfyValidated ==
  /\ Validated /\ ~argStrict
  /\ Len(csp.constraints) = 1
  /\ OnlyConstraint.type = MUST_SATISFY

\* C4 as stated: for one MUST_SATISFY constraint the non-strict result is true
\* when no target variable is assigned, and otherwise false exactly when some
\* assigned target variable holds its required value and some other does not,
\* also when only some of the target variables are assigned.
C4_MixedAmongPresentFails ==
  OneSatisfyValidated =>
    IF TargetPresent = {} THEN ret = "true"
    ELSE ret = "false" <=> (TargetMatched # {} /\ TargetMissed # {})

\* C4 as amended: for one MUST_SATISFY constraint the non-strict result is true
\* whenever some target variable is unassigned; when every target variable is
\* assigned it is false exactly when some holds its required value and some
\* does not.
C4_MixedAmongAllFails ==
  OneSatisfyValidated =>
    IF TargetPresent # DOMAIN OnlyConstraint.assignment THEN ret = "true"
    ELSE ret = "false" <=> (TargetMatched # {} /\ TargetMissed # {})

\* A target of three variables, all assigned, one matching and one not.
C4_Witness ==
  /\ OneSatisfyValidated
  /\ Cardinality(DOMAIN OnlyConstraint.assignment) = 3
  /\ TargetPresent = DOMAIN OnlyConstraint.assignment
  /\ TargetMatched # {} /\ TargetMissed # {}
  /\ ret = "false"

----------------------------------------------------------------------------
(* Claims about forwardChecking *)

ForwardChecked == pc = "forwardChecking"

\* Another variable that shares a MUST_BE_DISTINCT constraint with the variable
\* of the call had the value of the call as its only remaining value.
LastValueOfANeighbour ==
  \E k \in 1..Len(pre.constraints) :
    /\ pre.constraints[k].type = MUST_BE_DISTINCT
    /\ Includes(pre.constraints[k].variables, argVariable)
    /\ \E u \in SeqToSet(pre.constraints[k].variables) :
         u # argVariable /\ DomainArray(pre, u) = <<argValue>>

\* C5: forwardChecking returns true, the wipeout signal, whenever the value is
\* the only remaining value of another variable that shares a MUST_BE_DISTINCT
\* constraint with the variable.
C5_WipeoutReturnsTrue ==
  (ForwardChecked /\ LastValueOfANeighbour) => ret = "true"


\* s holds values of t, in the order they have in t.
RECURSIVE IsSubsequence(_, _)
IsSubsequence(s, t) ==
  IF s = <<>> THEN TRUE
  ELSE IF t = <<>> THEN FALSE
  ELSE IF Head(s) = Head(t) THEN IsSubsequence(Tail(s), Tail(t))
  ELSE IsSubsequence(s, Tail(t))

\* C8: after a forwardChecking call that does not signal wipeout, for a value
\* taken from the variable's current domain, the domain of every variable
\* holds only values it held before the call, in the same relative order.
C8_DomainsOnlyShrink ==
  (/\ ForwardChecked /\ ret = "false"
   /\ Includes(DomainArray(pre, argVariable), argValue)) =>
    \A v \in VarSet(pre) :
      DomainKind(pre, v) = "array" =>
        /\ DomainKind(csp, v) = "array"
        /\ IsSubsequence(DomainArray(csp, v), DomainArray(pre, v))

\* A call that collapsed a domain of several values and pruned from the
\* shuffled domain of another variable its middle value: that variable keeps
\* the first and the last, in that order.
C8_Witness ==
  /\ ForwardChecked /\ ret = "false"
  /\ Includes(DomainArray(pre, argVariable), argValue)
  /\ Len(DomainArray(pre, argVariable)) > 1
  /\ DomainArray(csp, argVariable) = <<argValue>>
  /\ argValue = Shuffled[2]
  /\ \E u \in VarSet(pre) \ {argVariable} :
       /\ DomainArray(pre, u) = Shuffled
       /\ DomainArray(csp, u) = <<Shuffled[1], Shuffled[3]>>

----------------------------------------------------------------------------
(* Claims about arcConsistency *)

ArcChecked == pc = "arcConsistency"

Incomplete(c, a) == Cardinality(DOMAIN a) # Len(c.variables)

\* C6: arcConsistency on a CSP without an arc list throws before it changes the
\* CSP, and solve with arcConsistency enabled on such a CSP, given an incomplete
\* assignment, ends with that error and no result.
C6_MissingArcsIsFatal ==
  /\ (ArcChecked /\ ~pre.hasArcs) => (threw = ArcsMissing /\ csp = pre)
  /\ (/\ pc = "recursiveBacktracking"
      /\ options.arcConsistency
      /\ ~pre.hasArcs
      /\ Incomplete(pre, assignment)) => (threw = ArcsMissing /\ ~result.found)

\* A solve with arcConsistency enabled, on a CSP without arcs, from an
\* assignment of some but not all variables.
C6_Witness ==
  /\ pc = "recursiveBacktracking"
  /\ options.arcConsistency
  /\ ~pre.hasArcs
  /\ assignment # EmptyAssignment
  /\ Incomplete(pre, assignment)
  /\ threw = ArcsMissing

\* (y, x) is an arc whenever (x, y) is.
SymmetricArcs(c) ==
  \A i \in 1..Len(c.arcs) : Includes(c.arcs, <<c.arcs[i][2], c.arcs[i][1]>>)

\* The last call was an arcConsistency run on the CSP an earlier run produced.
SecondRun == ArcChecked /\ calls >= 2

\* C7 as stated: a second arcConsistency run on the CSP a first run produced
\* leaves every domain unchanged, whatever the first run returned.
C7_SecondRunChangesNothing == SecondRun => csp.domains = pre.domains

\* C7 as amended: when the arc list is symmetric and the first run returned
\* false (no wipeout), a second run on the CSP it produced returns false and
\* leaves every domain unchanged.
C7_SecondRunAfterSuccessChangesNothing ==
  (SecondRun /\ prevRet = "false" /\ SymmetricArcs(pre)) =>
    (threw = NoError /\ ret = "false" /\ csp.domains = pre.domains)

\* A second run after a first run that pruned a domain and returned false.
C7_Witness ==
  /\ SecondRun /\ calls = 2 /\ prevRet = "false" /\ SymmetricArcs(pre)
  /\ pre.domains # input.domains
  /\ csp.domains = pre.domains

----------------------------------------------------------------------------
(* Claims about the copies solve works on *)

\* C9: whatever the options, solve leaves the caller's CSP object as it was:
\* domains, constraints, arcs and neighbour index.
C9_CallerCspUnchanged == pc = "recursiveBacktracking" => csp = pre

\* A solve with both options that found a result on a CSP whose domains
\* arcConsistency prunes.
C9_Witness ==
  /\ Solved /\ result.found
  /\ options.arcConsistency /\ options.forwardChecking
  /\ arcConsistency(<<pre>>, 1).heap[1].domains # pre.domains
  /\ csp = pre

\* Every constraint is over two variables.
BinaryConstraints(c) ==
  \A k \in 1..Len(c.constraints) : Cardinality(ConstraintVars(c.constraints[k])) = 2

\* The arc list holds, in both directions, exactly the pairs of different
\* variables that share a constraint.
ArcsOfConstraintGraph(c) ==
  /\ c.hasArcs
  /\ SeqToSet(c.arcs) =
       {p \in VarSet(c) \X VarSet(c) :
          /\ p[1] # p[2]
          /\ \E k \in 1..Len(c.constraints) :
               {p[1], p[2]} \subseteq ConstraintVars(c.constraints[k])}

ArcConsistencyOnly(o) == o.arcConsistency /\ ~o.forwardChecking

\* What plain backtracking returns for c from the empty assignment.
PlainResult(c) ==
  LET r == recursiveBacktracking(<<c>>, 1, EmptyAssignment,
                                 [forwardChecking |-> FALSE, arcConsistency |-> FALSE])
  IN [found |-> r.found, assignment |-> r.assignment]

LionUnicornAnswer ==
  [v \in {"today", "lion", "unicorn"} |->
     IF v = "today" THEN "Thursday" ELSE IF v = "lion" THEN "true" ELSE "false"]

\* C10: on a CSP whose constraints are each over two variables and whose arcs
\* are those of its constraint graph, solve with arcConsistency enabled returns
\* from the empty assignment what plain backtracking returns; on Lion-Unicorn
\* both return { today: Thursday, lion: true, unicorn: false }.
C10_ArcConsistencySameAsPlain ==
  /\ (/\ pc = "recursiveBacktracking"
      /\ ArcConsistencyOnly(options)
      /\ assignment = EmptyAssignment
      /\ BinaryConstraints(pre)
      /\ ArcsOfConstraintGraph(pre)) =>
       (threw = NoError /\ result = PlainResult(pre))
  /\ (/\ pc = "recursiveBacktracking"
      /\ pre = LionUnicorn
      /\ assignment = EmptyAssignment
      /\ (Plain(options) \/ ArcConsistencyOnly(options))) =>
       (result = [found |-> TRUE, assignment |-> LionUnicornAnswer])

\* A solve with arcConsistency enabled that found a result after the first
\* arcConsistency pass pruned a domain.
C10_Witness ==
  /\ Solved /\ result.found
  /\ ArcConsistencyOnly(options)
  /\ assignment = EmptyAssignment
  /\ Len(pre.constraints) > 0
  /\ BinaryConstraints(pre)
  /\ ArcsOfConstraintGraph(pre)
  /\ arcConsistency(<<pre>>, 1).heap[1].domains # pre.domains

----------------------------------------------------------------------------
(* Claims about solve with forwardChecking enabled *)

ForwardCheckingOnly(o) == o.forwardChecking /\ ~o.arcConsistency

\* What solve returns for c from the assignment a under the options o.
SolveResult(c, a, o) ==
  LET r == recursiveBacktracking(<<c>>, 1, a, o)
  IN [found |-> r.found, assignment |-> r.assignment, threw |-> r.threw]

\* What the last solve returned.
LastResult == [found |-> result.found, assignment |-> result.assignment, threw |-> threw]

\* No two regions that share a border of the Australia map hold the same colour.
ProperColouring(a) ==
  \A i \in 1..Len(AustraliaPairs) : a[AustraliaPairs[i][1]] # a[AustraliaPairs[i][2]]

\* C11: from every initial assignment, solve with forwardChecking enabled
\* returns what plain backtracking returns, the same assignment or absent; on
\* the Australia map it returns a colouring in which no two adjacent regions
\* are equal.
C11_ForwardCheckingSameAsPlain ==
  /\ (pc = "recursiveBacktracking" /\ ForwardCheckingOnly(options)) =>
       LastResult = SolveResult(pre, assignment,
                                [forwardChecking |-> FALSE, arcConsistency |-> FALSE])
  /\ (/\ pc = "recursiveBacktracking"
      /\ ForwardCheckingOnly(options)
      /\ pre = Australia
      /\ assignment = EmptyAssignment) =>
       (result.found /\ ProperColouring(result.assignment))

\* A solve with forwardChecking enabled that found a result although its first
\* forward check pruned the first value of a later variable's domain.
C11_Witness ==
  /\ Solved /\ result.found
  /\ ForwardCheckingOnly(options)
  /\ Incomplete(pre, assignment)
  /\ LET k == FirstUnassigned(pre.variables, assignment)
         v == pre.variables[k]
         fc == forwardChecking(<<pre>>, 1, v, result.assignment[v])
     IN /\ fc.ret = "false"
        /\ \E u \in VarSet(pre) \ (DOMAIN assignment \cup {v}) :
             /\ pre.domains[u] # <<>>
             /\ fc.heap[1].domains[u] # pre.domains[u]
             /\ result.assignment[u] # pre.domains[u][1]

PreSeeded ==
  /\ pc = "recursiveBacktracking"
  /\ pre = AustraliaFailureCase
  /\ assignment = RedGreen

\* C12: on the copy of Australia on which forwardChecking(WA, red) and then
\* forwardChecking(Q, green) were applied, solve from { WA: red, Q: green }
\* returns absent under plain backtracking, with forwardChecking enabled and
\* with arcConsistency enabled.
C12_PreSeededAustraliaIsAbsent ==
  (/\ PreSeeded
   /\ (Plain(options) \/ ForwardCheckingOnly(options) \/ ArcConsistencyOnly(options))) =>
    (threw = NoError /\ ~result.found)

\* The solve of the pre-seeded copy with arcConsistency enabled: the two
\* forward checks left blue alone for both SA and NT.
C12_Witness ==
  /\ PreSeeded
  /\ ArcConsistencyOnly(options)
  /\ pre.domains["SA"] = <<"blue">>
  /\ pre.domains["NT"] = <<"blue">>
  /\ pre.domains["WA"] = <<"red">>
  /\ pre.domains["Q"] = <<"green">>
  /\ ~result.found

----------------------------------------------------------------------------
(* Claims about strict validation *)

\* The constraint c has enough assigned variables to be evaluated: two
\* different variables of a MUST_BE_DISTINCT constraint are both assigned, or
\* every target variable of a MUST_SATISFY constraint is.
Evaluable(a, c) ==
  IF c.type = MUST_BE_DISTINCT
  THEN \E x, y \in SeqToSet(c.variables) :
         x # y /\ x \in DOMAIN a /\ y \in DOMAIN a
  ELSE DOMAIN c.assignment \subseteq DOMAIN a

SomeEvaluable(a, constraints) ==
  \E k \in 1..Len(constraints) : Evaluable(a, constraints[k])

\* C13: validateConstraints with strict = true returns true exactly when the
\* non-strict result is true and some constraint is evaluable; with no
\* evaluable constraint it returns false; the call leaves the constraints and
\* the rest of the CSP object as they were.
C13_StrictIsNonStrictAndEvaluated ==
  (Validated /\ argStrict) =>
    /\ ret = "true" <=>
         (/\ validateConstraints(assignment, csp.constraints, FALSE)
          /\ SomeEvaluable(assignment, csp.constraints))
    /\ ~SomeEvaluable(assignment, csp.constraints) => ret = "false"
    /\ csp = pre

\* A strict call that returned false on an assignment that passes non-strictly:
\* variables are assigned, but too few for either of two constraints.
C13_Witness ==
  /\ Validated /\ argStrict
  /\ ret = "false"
  /\ assignment # EmptyAssignment
  /\ Len(csp.constraints) = 2
  /\ csp.constraints[1].type = MUST_BE_DISTINCT
  /\ csp.constraints[2].type = MUST_SATISFY
  /\ \E v \in ConstraintVars(csp.constraints[1]) : v \in DOMAIN assignment
  /\ validateConstraints(assignment, csp.constraints, FALSE)

----------------------------------------------------------------------------
(* Claims about the domains arcConsistency leaves *)

\* The value vx of x has a support in the domain of y: some value vy of y makes
\* { x: vx, y: vy } pass strict validation.
Supported(c, x, vx, y) ==
  \E vy \in SeqToSet(c.domains[y]) :
    validateConstraints(Pair(x, vx, y, vy), c.constraints, TRUE)

\* Every value of every arc's first variable has a support in the domain of
\* the arc's second variable.
ArcConsistent(c) ==
  \A i \in 1..Len(c.arcs) :
    \A vx \in SeqToSet(c.domains[c.arcs[i][1]]) :
      Supported(c, c.arcs[i][1], vx, c.arcs[i][2])

\* C15: for a symmetric arc list, the domains arcConsistency leaves when it
\* returns false are arc-consistent, and it returns true only when the domain
\* of a variable it revised has become empty.
C15_FalseMeansArcConsistent ==
  (ArcChecked /\ threw = NoError /\ SymmetricArcs(pre)) =>
    /\ ret = "false" => ArcConsistent(csp)
    /\ ret = "true" =>
         \E i \in 1..Len(pre.arcs) :
           /\ pre.domains[pre.arcs[i][1]] # <<>>
           /\ csp.domains[pre.arcs[i][1]] = <<>>

\* A run over a symmetric arc list that returned false after pruning two
\* domains that were not arc-consistent.
C15_Witness ==
  /\ ArcChecked /\ threw = NoError /\ SymmetricArcs(pre)
  /\ ret = "false"
  /\ ~ArcConsistent(pre)
  /\ Cardinality({v \in VarSet(pre) : csp.domains[v] # pre.domains[v]}) >= 2
  /\ \A v \in VarSet(pre) : csp.domains[v] # <<>>

----------------------------------------------------------------------------
(* Claims about what forwardChecking changes *)

\* u shares a MUST_BE_DISTINCT constraint of c with v.
SharesDistinct(c, u, v) ==
  \E k \in 1..Len(c.constraints) :
    /\ c.constraints[k].type = MUST_BE_DISTINCT
    /\ Includes(c.constraints[k].variables, u)
    /\ Includes(c.constraints[k].variables, v)

\* The values of s without x, in the order of s.
Without(s, x) == Pick(s, {i \in 1..Len(s) : s[i] # x}, 1)

\* C19: a forwardChecking(csp, variable, value) call changes in the caller's
\* CSP only domains, a domain being the array csp.domains gives for a variable:
\* that of variable becomes [value]; that of a variable sharing a
\* MUST_BE_DISTINCT constraint with it stays as it was or loses value and
\* nothing else (it loses value whenever the call returns false); every other
\* domain, hence that of every variable only tied to it by MUST_SATISFY
\* constraints or reached by the cascade, stays as it was.
C19_OnlyValuePrunedFromDistinctPeers ==
  ForwardChecked =>
    /\ [csp EXCEPT !.domains = pre.domains,
                   !.domainsPrototype = pre.domainsPrototype] = pre
    /\ DomainKind(csp, argVariable) = "array"
    /\ DomainArray(csp, argVariable) = <<argValue>>
    /\ \A u \in (VarSet(pre) \cup DOMAIN pre.domains) \ {argVariable} :
         DomainKind(pre, u) = "array" =>
           /\ DomainKind(csp, u) = "array"
           /\ IF SharesDistinct(pre, u, argVariable)
              THEN /\ DomainArray(csp, u) \in
                        {DomainArray(pre, u), Without(DomainArray(pre, u), argValue)}
                   /\ ret = "false" =>
                        DomainArray(csp, u) = Without(DomainArray(pre, u), argValue)
              ELSE DomainArray(csp, u) = DomainArray(pre, u)

\* A call whose cascade forward-checked a peer left with one value, w, on a
\* copy: a third variable, not a peer of the call's variable, still holds w.
C19_Witness ==
  /\ ForwardChecked /\ ret = "false"
  /\ \E u, t \in VarSet(pre) \ {argVariable} :
       /\ u # t
       /\ Len(DomainArray(pre, u)) > 1
       /\ Len(DomainArray(csp, u)) = 1
       /\ SharesDistinct(pre, t, u)
       /\ ~SharesDistinct(pre, t, argVariable)
       /\ Len(DomainArray(csp, t)) > 1
       /\ Includes(DomainArray(csp, t), DomainArray(csp, u)[1])
       /\ DomainArray(csp, t) = DomainArray(pre, t)

\* A call for the variable "__proto__", which csp.domains has no entry for:
\* the write of line 366 made [value] the prototype of csp.domains, and a
\* variable sharing a MUST_BE_DISTINCT constraint with it lost the value.
ProtoForwardChecked ==
  /\ ForwardChecked /\ ret = "false"
  /\ argVariable = "__proto__"
  /\ "__proto__" \notin DOMAIN csp.domains
  /\ csp.domainsPrototype = PrototypeArray(<<argValue>>)
  /\ \E u \in DOMAIN pre.domains :
       /\ SharesDistinct(pre, u, argVariable)
       /\ Includes(pre.domains[u], argValue)
       /\ csp.domains[u] = Without(pre.domains[u], argValue)

----------------------------------------------------------------------------
(* The basic solver of cspBasic.ts: the constraint is one predicate *)

\* The pairs the predicate of the basic Australia problem compares.
BasicAustraliaPairs ==
  << <<"SA", "WA">>, <<"SA", "NT">>, <<"SA", "Q">>, <<"SA", "NSW">>, <<"SA", "V">>,
     <<"WA", "NT">>, <<"NT", "Q">>, <<"Q", "NSW">>, <<"NSW", "V">> >>

\* Australia.constraints: no pair whose two values are both assigned holds two
\* equal values.
BasicAustraliaConstraints(a) ==
  ~\E i \in 1..Len(BasicAustraliaPairs) :
     /\ Present(a, BasicAustraliaPairs[i][1])
     /\ Present(a, BasicAustraliaPairs[i][2])
     /\ a[BasicAustraliaPairs[i][1]] = a[BasicAustraliaPairs[i][2]]

\* The four objects the predicate of the basic Lion-Unicorn problem goes through.
BasicLionUnicornRules ==
  << [target |-> "lion", value |-> "true", today |-> "Thursday"],
     [target |-> "lion", value |-> "false", today |-> "Monday"],
     [target |-> "unicorn", value |-> "true", today |-> "Sunday"],
     [target |-> "unicorn", value |-> "false", today |-> "Thursday"] >>

\* A callback that does not compare the assigned value with the rule's.
RuleBrokenWhateverTheValue(a, rule) ==
  /\ Present(a, rule.target)
  /\ a["today"] # rule.today

\* The callback of find: the other variable is assigned, holds the rule's value
\* and today is not the rule's day.
RuleBroken(a, rule) ==
  /\ Present(a, rule.target)
  /\ a[rule.target] = rule.value
  /\ a["today"] # rule.today

\* LionUnicorn.constraints
BasicLionUnicornConstraints(a) ==
  IF ~Present(a, "today") THEN TRUE
  ELSE ~\E k \in 1..Len(BasicLionUnicornRules) : RuleBroken(a, BasicLionUnicornRules[k])

\* A CSP object of cspBasic.ts; constraints names the predicate it holds.
BasicAustralia ==
  [variables |-> AUSTRALIA_VARIABLES,
   domains |-> [v \in SeqToSet(AUSTRALIA_VARIABLES) |-> <<"red", "green", "blue">>],
   constraints |-> "Australia"]

BasicLionUnicorn ==
  [variables |-> <<"today", "lion", "unicorn">>,
   domains |-> [v \in {"today", "lion", "unicorn"} |->
                  IF v = "today"
                  THEN <<"Monday", "Tuesday", "Wednesday", "Thursday", "Friday",
                         "Saturday", "Sunday">>
                  ELSE <<"true", "false">>],
   constraints |-> "LionUnicorn"]

\* csp.constraints(assignment)
BasicConstraints(c, a) ==
  IF c.constraints = "Australia" THEN BasicAustraliaConstraints(a)
  ELSE BasicLionUnicornConstraints(a)

RECURSIVE basicRecursiveBacktrackingWithin(_, _, _)
RECURSIVE BasicValues(_, _, _, _, _, _)

\* The loop over the values of csp.domains[unassignedVariable] from index i on.
BasicValues(c, a, variable, values, i, seen) ==
  IF i > Len(values)
  THEN [found |-> FALSE, assignment |-> EmptyAssignment, threw |-> NoError]
  ELSE LET newAssignment == Extend(a, variable, values[i])
       IN IF ~BasicConstraints(c, newAssignment)
          THEN BasicValues(c, a, variable, values, i + 1, seen)
          ELSE LET r == basicRecursiveBacktrackingWithin(c, newAssignment, seen)
               IN IF r.threw # NoError \/ r.found THEN r
                  ELSE BasicValues(c, a, variable, values, i + 1, seen)

\* recursiveBacktracking of cspBasic.ts, called from a loop of the calls that
\* began from the assignments in seen.  The key read in csp.domains is the
\* variable find gave or "undefined"; without an entry under it there is
\* nothing to iterate: a TypeError.  A call that begins its loop, over a key
\* its assignment holds already, from an assignment in seen repeats what the
\* earlier call did: the recursion does not end, and the call stack overflows.
basicRecursiveBacktrackingWithin(c, a, seen) ==
  IF Cardinality(DOMAIN a) = Len(c.variables)
  THEN [found |-> TRUE, assignment |-> a, threw |-> NoError]
  ELSE LET variable == PickedKey(c.variables, FirstUnassigned(c.variables, a))
       IN IF variable \notin DOMAIN c.domains
          THEN [found |-> FALSE, assignment |-> EmptyAssignment, threw |-> TypeError]
          ELSE IF variable \notin DOMAIN a
               THEN BasicValues(c, a, variable, c.domains[variable], 1, seen)
               ELSE IF a \in seen
                    THEN [found |-> FALSE, assignment |-> EmptyAssignment,
                          threw |-> RangeError]
                    ELSE BasicValues(c, a, variable, c.domains[variable], 1,
                                     seen \cup {a})

\* recursiveBacktracking of cspBasic.ts
basicRecursiveBacktracking(c, a) == basicRecursiveBacktrackingWithin(c, a, {})

\* csp.constraints(assignment) on the basic CSP object
BasicAccept ==
  /\ pc = "ready"
  /\ ret' = BoolStr(BasicConstraints(basicCsp, assignment))
  /\ pc' = "basicConstraints"
  /\ pre' = csp
  /\ prevRet' = ret
  /\ UNCHANGED <<csp, assignment, options, argStrict, argVariable, argValue, result, threw,
                 calls, input, basicCsp, searchVars>>

\* recursiveBacktracking(csp, assignment) of cspBasic.ts
BasicSolve ==
  /\ pc = "ready"
  /\ LET r == basicRecursiveBacktracking(basicCsp, assignment)
     IN /\ result' = [found |-> r.found, assignment |-> r.assignment]
        /\ threw' = r.threw
  /\ pc' = "basicRecursiveBacktracking"
  /\ pre' = csp
  /\ prevRet' = ret
  /\ ret' = "none"
  /\ UNCHANGED <<csp, assignment, options, argStrict, argVariable, argValue, calls, input,
                 basicCsp, searchVars>>

\* The partial assignments that draw each assigned variable's value from its
\* domain.
DomainAssignments(c) ==
  UNION {{f \in [D -> UNION {SeqToSet(c.domains[v]) : v \in VarSet(c)}] :
            \A v \in D : f[v] \in SeqToSet(c.domains[v])} : D \in SUBSET VarSet(c)}

\* Each sample problem in its two forms, from the empty assignment, from every
\* complete assignment and, for Lion-Unicorn, from every partial one.
InitBasic ==
  \/ \E a \in DomainAssignments(LionUnicorn) :
       InitBoth(LionUnicorn, BasicLionUnicorn, a)
  \/ \E a \in {EmptyAssignment} \cup CompleteAssignments(Australia) :
       InitBoth(Australia, BasicAustralia, a)

SpecBasic == InitBasic /\ [][BasicAccept \/ BasicSolve]_vars

\* C20: on Australia and on Lion-Unicorn the basic solver returns from the
\* empty assignment the assignment plain backtracking of the structured solver
\* returns, and the predicate accepts a complete assignment exactly when
\* validateConstraints does non-strictly.
C20_BasicSolverAgrees ==
  /\ (pc = "basicRecursiveBacktracking" /\ assignment = EmptyAssignment) =>
       /\ threw = NoError
       /\ result.found
       /\ result = PlainResult(csp)
  /\ (pc = "basicConstraints" /\ ~Incomplete(csp, assignment)) =>
       (ret = BoolStr(validateConstraints(assignment, csp.constraints, FALSE)))

\* The predicate of the basic Lion-Unicorn problem rejected a complete
\* assignment in which the lion's answer holds and the unicorn's does not.
C20_Witness ==
  /\ pc = "basicConstraints"
  /\ csp = LionUnicorn
  /\ ~Incomplete(csp, assignment)
  /\ assignment["today"] = "Thursday"
  /\ assignment["lion"] = "true"
  /\ assignment["unicorn"] = "true"
  /\ ret = "false"

----------------------------------------------------------------------------
(* The search, one step at a time *)

\* A call on the stack.  fn names the function, at the point it has reached;
\* ref is its csp, a its assignment; queue is the AC-3 worklist; variable,
\* values and i are the variable picked, the array the loop goes through and
\* the position in it; value and newCsp belong to the value being tried;
\* toPropagate is assignmentsToPropagate; loopCsp is the call's CSP object as
\* it was when the loop over the values began.  named is false when the
\* variable of the call is undefined, variable then being the key "undefined".
Frame(fn, ref, a, variable, value) ==
  [fn |-> fn, at |-> "start", ref |-> ref, a |-> a, queue |-> <<>>,
   named |-> TRUE, variable |-> variable, value |-> value, values |-> <<>>, i |-> 1,
   newCsp |-> 0, toPropagate |-> <<>>, loopCsp |-> NoBasicCsp]

RBFrame(ref, a) == Frame("recursiveBacktracking", ref, a, "", "")

FCFrame(ref, variable, value) ==
  Frame("forwardChecking", ref, EmptyAssignment, variable, value)

Top == stack[Len(stack)]

\* The running call is fn and has reached the point at.
Running(fn, at) == stack # <<>> /\ Top.fn = fn /\ Top.at = at

\* return assignment / return result
FoundValue(a) ==
  [fn |-> "recursiveBacktracking", ret |-> "none", found |-> TRUE, assignment |-> a]

\* return; in recursiveBacktracking, or the end of its body
AbsentValue ==
  [fn |-> "recursiveBacktracking", ret |-> "none", found |-> FALSE,
   assignment |-> EmptyAssignment]

\* What forwardChecking returns: "true", "false" or "undefined".
FCValue(r) ==
  [fn |-> "forwardChecking", ret |-> r, found |-> FALSE, assignment |-> EmptyAssignment]

\* The running call returns val; when it is the caller's call the solve ends.
ReturnFrom(h, val) ==
  /\ heap' = h
  /\ stack' = SubSeq(stack, 1, Len(stack) - 1)
  /\ returned' = val
  /\ IF Len(stack) = 1
     THEN /\ pc' = "recursiveBacktracking"
          /\ result' = [found |-> val.found, assignment |-> val.assignment]
          /\ csp' = h[1]
     ELSE UNCHANGED <<pc, result, csp>>
  /\ UNCHANGED threw

\* The running call throws e; nothing catches it.
Throw(h, e) ==
  /\ heap' = h
  /\ stack' = <<>>
  /\ returned' = NoReturn
  /\ pc' = "recursiveBacktracking"
  /\ result' = NoResult
  /\ csp' = h[1]
  /\ threw' = e

\* The running call goes on as frame f.
Goto(h, f) ==
  /\ heap' = h
  /\ stack' = [stack EXCEPT ![Len(stack)] = f]
  /\ returned' = NoReturn
  /\ UNCHANGED <<pc, result, csp, threw>>

\* The running call, now at frame f, calls g.
Push(h, f, g) ==
  /\ heap' = h
  /\ stack' = Append([stack EXCEPT ![Len(stack)] = f], g)
  /\ returned' = NoReturn
  /\ UNCHANGED <<pc, result, csp, threw>>

callerVars ==
  <<assignment, options, argStrict, argVariable, argValue, ret, pre, prevRet, calls,
    input, basicCsp>>

\* "Pick an unassigned variable" and the start of the loop over its values.
\* A call that begins the loop, over a key its assignment holds already, from
\* the state a call below it began its loop from goes the same way without
\* end: the call stack overflows.
PickVariable(h, f) ==
  LET k == FirstUnassigned(h[f.ref].variables, f.a)
      variable == PickedKey(h[f.ref].variables, k)
      kind == DomainKind(h[f.ref], variable)
  IN IF kind = "other" THEN Throw(h, TypeError)
     ELSE IF /\ variable \in DOMAIN f.a
             /\ \E j \in 1..(Len(stack) - 1) :
                  /\ stack[j].fn = "recursiveBacktracking"
                  /\ stack[j].loopCsp = h[f.ref]
                  /\ stack[j].a = f.a
          THEN Throw(h, RangeError)
     ELSE Goto(h, [f EXCEPT !.at = "loop",
                            !.named = k # 0,
                            !.variable = variable,
                            !.values =
                              IF kind = "string"
                              THEN Chars(DomainString(h[f.ref], variable))
                              ELSE DomainArray(h[f.ref], variable),
                            !.i = 1,
                            !.loopCsp = h[f.ref]])

\* The caller calls recursiveBacktracking(csp, assignment, o).
Call ==
  /\ pc = "ready"
  /\ stack = <<>>
  /\ \E o \in Options : options' = o
  /\ pc' = "searching"
  /\ stack' = <<RBFrame(1, assignment)>>
  /\ heap' = <<csp>>
  /\ returned' = NoReturn
  /\ pre' = csp
  /\ UNCHANGED <<csp, assignment, argStrict, argVariable, argValue, ret, result, threw,
                 prevRet, calls, input, basicCsp>>

\* recursiveBacktracking up to the AC-3 worklist or, without arcConsistency, to
\* its loop.
Begin ==
  /\ Running("recursiveBacktracking", "start")
  /\ LET f == Top
     IN IF Cardinality(DOMAIN f.a) = Len(heap[f.ref].variables)
        THEN ReturnFrom(heap, FoundValue(f.a))
        ELSE IF options.arcConsistency
             THEN LET cl == CloneDeep(heap, f.ref)
                      cn == computeNeighbours(cl.heap, cl.ref)
                  IN IF ~cl.heap[cl.ref].hasArcs THEN Throw(cl.heap, ArcsMissing)
                     ELSE IF cn.threw # NoError THEN Throw(cn.heap, cn.threw)
                     ELSE Goto(cn.heap, [f EXCEPT !.at = "ac", !.ref = cl.ref,
                                                  !.queue = cn.heap[cl.ref].arcs])
             ELSE PickVariable(heap, f)
  /\ UNCHANGED callerVars

\* One turn of the while loop of arcConsistency, called by recursiveBacktracking.
Revise ==
  /\ Running("recursiveBacktracking", "ac")
  /\ LET f == Top
     IN IF f.queue = <<>> THEN PickVariable(heap, f)
        ELSE LET x == f.queue[1][1]
                 y == f.queue[1][2]
             IN \E r \in {removeInconsistentValues(heap, f.ref, x, y)} :
                  IF r.threw # NoError THEN Throw(r.heap, r.threw)
                  ELSE IF ~r.removed
                       THEN Goto(r.heap, [f EXCEPT !.queue = Tail(f.queue)])
                  ELSE IF Len(DomainArray(r.heap[f.ref], x)) = 0
                       THEN ReturnFrom(r.heap, AbsentValue)
                       ELSE IF x \notin DOMAIN r.heap[f.ref].neighbours
                            THEN Throw(r.heap, TypeError)
                            ELSE Goto(r.heap,
                                      [f EXCEPT !.queue =
                                         Requeue(f.queue, r.heap[f.ref].neighbours[x], x)])
  /\ UNCHANGED callerVars

\* One turn of the loop over the values: validate, copy, and call
\* forwardChecking (with the variable find gave, or with undefined) or
\* recursiveBacktracking; after the last value, return.
TryValue ==
  /\ Running("recursiveBacktracking", "loop")
  /\ LET f == Top
     IN IF f.i > Len(f.values) THEN ReturnFrom(heap, AbsentValue)
        ELSE LET value == f.values[f.i]
                 newAssignment == Extend(f.a, f.variable, value)
                 cl == CloneDeep(heap, f.ref)
             IN IF ~validateConstraints(newAssignment, heap[f.ref].constraints, FALSE)
                THEN Goto(heap, [f EXCEPT !.i = f.i + 1])
                ELSE IF options.forwardChecking
                     THEN Push(cl.heap,
                               [f EXCEPT !.at = "fc", !.value = value, !.newCsp = cl.ref],
                               [FCFrame(cl.ref, f.variable, value)
                                  EXCEPT !.named = f.named])
                     ELSE Push(cl.heap,
                               [f EXCEPT !.at = "rec", !.value = value, !.newCsp = cl.ref],
                               RBFrame(cl.ref, newAssignment))
  /\ UNCHANGED callerVars

\* if (forwardChecking(newCsp, unassignedVariable, value)) return; and the
\* recursive call that follows.
AfterForwardCheck ==
  /\ Running("recursiveBacktracking", "fc")
  /\ returned.fn = "forwardChecking"
  /\ LET f == Top
     IN IF Truthy(returned.ret) THEN ReturnFrom(heap, AbsentValue)
        ELSE Push(heap, [f EXCEPT !.at = "rec"],
                  RBFrame(f.newCsp, Extend(f.a, f.variable, f.value)))
  /\ UNCHANGED callerVars

\* if (result) return result; and the next turn of the loop.
AfterRecursion ==
  /\ Running("recursiveBacktracking", "rec")
  /\ returned.fn = "recursiveBacktracking"
  /\ LET f == Top
     IN IF returned.found THEN ReturnFrom(heap, returned)
        ELSE Goto(heap, [f EXCEPT !.at = "loop", !.i = f.i + 1])
  /\ UNCHANGED callerVars

\* forwardChecking up to the cascade: the domain update and the loop over the
\* constraints, none of which includes the variable when it is undefined.
Scan ==
  /\ Running("forwardChecking", "start")
  /\ LET f == Top
         h1 == Collapse(heap, f.ref, f.variable, f.value)
     IN IF ~f.named
        THEN ReturnFrom(forwardCheckingOfUndefined(heap, f.ref, f.value).heap,
                        FCValue("false"))
        ELSE \E scan \in {FCScan(h1, f.ref, f.variable, f.value, 1, <<>>)} :
               IF scan.threw # NoError THEN Throw(scan.heap, scan.threw)
               ELSE IF scan.wipeout THEN ReturnFrom(scan.heap, FCValue("undefined"))
               ELSE IF Len(scan.toPropagate) > 0
                    THEN Goto(scan.heap, [f EXCEPT !.at = "find", !.i = 1,
                                                   !.toPropagate = scan.toPropagate])
                    ELSE ReturnFrom(scan.heap, FCValue("false"))
  /\ UNCHANGED callerVars

\* One turn of find over assignmentsToPropagate: the callback forward-checks a
\* copy; after the last entry find gives undefined and the call returns false.
Propagate ==
  /\ Running("forwardChecking", "find")
  /\ LET f == Top
         cl == CloneDeep(heap, f.ref)
     IN IF f.i > Len(f.toPropagate) THEN ReturnFrom(heap, FCValue("false"))
        ELSE Push(cl.heap, [f EXCEPT !.at = "callback"],
                  FCFrame(cl.ref, f.toPropagate[f.i][1], f.toPropagate[f.i][2]))
  /\ UNCHANGED callerVars

\* What the callback of find returned: truthy ends find and the call returns
\* true.
AfterPropagate ==
  /\ Running("forwardChecking", "callback")
  /\ returned.fn = "forwardChecking"
  /\ LET f == Top
     IN IF Truthy(returned.ret) THEN ReturnFrom(heap, FCValue("true"))
        ELSE Goto(heap, [f EXCEPT !.at = "find", !.i = f.i + 1])
  /\ UNCHANGED callerVars

SearchStep ==
  \/ Begin \/ Revise \/ TryValue \/ AfterForwardCheck \/ AfterRecursion
  \/ Scan \/ Propagate \/ AfterPropagate

\* The constraints a problem searched step by step draws from.
SearchPool ==
  << Distinct(<<"a", "b">>),
     Distinct(<<"b", "c">>),
     Distinct(<<"a", "b", "c">>),
     Satisfy(Pair("a", "1", "b", "2")),
     Satisfy(Pair("b", "2", "c", "1")) >>

\* The constraints of the problems in which find comes to give undefined.
UndefinedPool ==
  << Distinct(<<"a", "undefined">>),
     Satisfy(Pair("a", "1", "undefined", "2")),
     Satisfy([v \in {"undefined"} |-> "1"]) >>

\* A problem whose variable list names a twice and whose domains hold an entry
\* under the key "undefined": once a is assigned find gives undefined, and the
\* search goes through the values under that key.
TwiceNamed(domains, constraints, arcKind) ==
  MakeCSP(<<"a", "a">>, domains, constraints, arcKind # "none",
          IF arcKind = "closure" THEN copyAndReverse(<< <<"a", "undefined">> >>)
          ELSE <<>>)

InitUndefined ==
  \E d \in [{"a", "undefined"} -> SolveDomainChoices], cs \in ListsOf(UndefinedPool),
     k \in {"none", "closure"} :
    InitWith(TwiceNamed(d, cs, k), EmptyAssignment)

\* The problems handed to recursiveBacktracking as one operation, those in
\* which find comes to give undefined included.
InitSolveAll == InitSolve \/ InitUndefined

SpecSolveAll == InitSolveAll /\ [][Solve]_vars

InitSearch ==
  \/ \E d \in [GenVarSet -> SolveDomainChoices], cs \in ListsOf(SearchPool),
        k \in {"none", "closure", "forward"} :
       InitWith(GenCSP(d, cs, k), EmptyAssignment)
  \/ InitWith(LionUnicorn, EmptyAssignment)
  \/ InitUndefined

SpecSearch == InitSearch /\ [][Call \/ SearchStep]_vars

\* Problems with a symmetric arc list, problems without an arc list, and
\* problems in which find comes to give undefined.
InitSearchFair ==
  \/ \E d \in [GenVarSet -> SolveDomainChoices], cs \in ListsOf(SearchPool) :
       InitWith(GenCSP(d, cs, "closure"), EmptyAssignment)
  \/ \E cs \in ListsOf(SearchPool) :
       InitWith(GenCSP(FullDomains, cs, "none"), EmptyAssignment)
  \/ InitWith(LionUnicorn, EmptyAssignment)
  \/ \E du \in {GenVals, <<GenVals[NumVals]>>}, cs \in ListsOf(UndefinedPool) :
       InitWith(TwiceNamed([v \in {"a", "undefined"} |->
                              IF v = "a" THEN GenVals ELSE du],
                           cs, "closure"),
                EmptyAssignment)

\* The program is one synchronous thread: a step that can be taken is taken.
SpecSearchFair ==
  InitSearchFair /\ [][Call \/ SearchStep]_vars /\ WF_vars(Call \/ SearchStep)

\* The steps end with what recursiveBacktracking gives as one operation.
StepsAgree ==
  (pc = "recursiveBacktracking") =>
    LET r == recursiveBacktracking(<<pre>>, 1, assignment, options)
    IN /\ result = [found |-> r.found, assignment |-> r.assignment]
       /\ threw = r.threw
       /\ heap = r.heap

----------------------------------------------------------------------------
(* Claims about the steps of the search *)

\* The forward check of the value being tried has just returned to the search
\* through its wipeout exit (undefined) or with true.
WipeoutSignalled ==
  /\ Running("recursiveBacktracking", "fc")
  /\ returned.fn = "forwardChecking"
  /\ returned.ret # "false"

\* The search is inside its loop over the values.
InLoop ==
  /\ stack # <<>>
  /\ Top.fn = "recursiveBacktracking"
  /\ Top.at \in {"loop", "fc", "rec"}

\* C14: in a solve with forwardChecking enabled, the step after a forward check
\* that signalled wipeout makes no recursive call for the value and moves the
\* loop to the next value; and the loop returns absent only after the last
\* value of the domain.
C14_WipeoutSkipsRecursion ==
  [][/\ WipeoutSignalled =>
          stack' = [stack EXCEPT ![Len(stack)] =
                      [Top EXCEPT !.at = "loop", !.i = Top.i + 1]]
     /\ (InLoop /\ Len(stack') < Len(stack) /\ returned' = AbsentValue) =>
          Top.i > Len(Top.values)]_vars

\* The calls of recursiveBacktracking on the stack that are inside their loop
\* over the values.
LoopFrames ==
  {k \in 1..Len(stack) :
     /\ stack[k].fn = "recursiveBacktracking"
     /\ stack[k].at \in {"loop", "fc", "rec"}}

\* C16: throughout the loop over the values of a solve call, and so at the
\* start of every value trial, the domains of the call's CSP are those the loop
\* began with (after the call's AC-3 pass, if any); the caller's CSP object is
\* what the caller constructed, during the search and after it returns.
C16_TrialsSeeTheSameDomains ==
  /\ \A k \in LoopFrames : heap[stack[k].ref].domains = stack[k].loopCsp.domains
  /\ pc \in {"searching", "recursiveBacktracking"} => (heap[1] = input /\ csp = input)

\* The caller's call, with both options enabled, is about to try a later value
\* after the copy made for an earlier value was pruned, by forward checking or
\* by the search below it.
C16_Witness ==
  /\ Running("recursiveBacktracking", "loop")
  /\ Len(stack) = 1
  /\ options.forwardChecking /\ options.arcConsistency
  /\ Top.i >= 2 /\ Top.i <= Len(Top.values)
  /\ \E r \in (Top.ref + 1)..Len(heap) :
       \E v \in VarSet(heap[r]) \ {Top.variable} :
         /\ heap[r].domains[v] # heap[Top.ref].domains[v]
         /\ heap[r].domains[Top.variable] = <<Top.values[1]>>
  /\ heap[Top.ref].domains = Top.loopCsp.domains

\* The calls of recursiveBacktracking on the stack that are not in the middle
\* of their AC-3 pass.
SearchFrames ==
  {k \in 1..Len(stack) :
     stack[k].fn = "recursiveBacktracking" /\ stack[k].at # "ac"}

\* Each variable assigned in a solve call holds a value of its domain in the
\* CSP the call carries (as the call received it and after its AC-3 pass, when
\* that pass signals no wipeout) and of its domain in the problem the caller
\* gave.
AssignedValuesAreInDomains ==
  \A k \in SearchFrames :
    \A v \in DOMAIN stack[k].a :
      /\ Includes(heap[stack[k].ref].domains[v], stack[k].a[v])
      /\ Includes(input.domains[v], stack[k].a[v])

\* C17 as stated: in every solve call reached from the empty assignment, under
\* every option combination and whatever the arc list, each assigned variable
\* holds a value of its domain in the call's CSP and in the original problem.
C17_AssignedValuesAreInDomains ==
  assignment = EmptyAssignment => AssignedValuesAreInDomains

\* C17 as amended: the same, for a CSP whose arc list is symmetric when
\* arcConsistency is enabled.
C17_AssignedValuesAreInDomainsForSymmetricArcs ==
  (/\ assignment = EmptyAssignment
   /\ options.arcConsistency => SymmetricArcs(input)) =>
    AssignedValuesAreInDomains

\* A call with two assigned variables, with both options enabled, whose AC-3
\* pass and whose parent's forward check both pruned the CSP it carries.
C17_Witness ==
  /\ assignment = EmptyAssignment
  /\ options.forwardChecking /\ options.arcConsistency
  /\ SymmetricArcs(input)
  /\ Running("recursiveBacktracking", "loop")
  /\ Cardinality(DOMAIN Top.a) = 2
  /\ \A v \in DOMAIN Top.a : heap[Top.ref].domains[v] = <<Top.a[v]>>
  /\ \E v \in DOMAIN Top.a : Len(input.domains[v]) > 1
  /\ \E v \in VarSet(input) \ DOMAIN Top.a :
       /\ heap[Top.ref].domains[v] # input.domains[v]
       /\ heap[Top.ref].domains[v] # <<>>

\* The positions on the stack of the calls of fn.
FramesOf(fn) == {k \in 1..Len(stack) : stack[k].fn = fn}

\* The nearest call of recursiveBacktracking below position k, 0 if none.
ParentOf(k) ==
  IF \E j \in FramesOf("recursiveBacktracking") : j < k
  THEN CHOOSE j \in FramesOf("recursiveBacktracking") :
         j < k /\ \A m \in FramesOf("recursiveBacktracking") : m < k => m <= j
  ELSE 0

\* Each solve call has one more assigned variable than the solve call that
\* made it, there are never more nested solve calls than variables, and never
\* more nested forward checks than variables.
DepthBounded ==
  /\ \A k \in FramesOf("recursiveBacktracking") :
       ParentOf(k) # 0 =>
         Cardinality(DOMAIN stack[k].a) = Cardinality(DOMAIN stack[ParentOf(k)].a) + 1
  /\ Cardinality(FramesOf("recursiveBacktracking")) <= Len(input.variables) + 1
  /\ Cardinality(FramesOf("forwardChecking")) <= Len(input.variables)

\* A solve is running on a CSP whose arc list is symmetric if AC-3 is used.
SearchRunning ==
  /\ pc = "searching"
  /\ options.arcConsistency => SymmetricArcs(input)

\* The solve has returned a result or absent, or has thrown for want of arcs.
SearchEnded ==
  /\ pc = "recursiveBacktracking"
  /\ stack = <<>>
  /\ threw \in {NoError, ArcsMissing}

\* C18: solve terminates under every option combination, for a symmetric arc
\* list when AC-3 is used: a solve call has one more assigned variable than its
\* parent, so that the nesting never exceeds the number of variables, and every
\* running solve ends, which includes every forward-checking cascade and every
\* AC-3 worklist.
C18_SolveTerminates ==
  /\ []DepthBounded
  /\ SearchRunning ~> SearchEnded

\* A solve with both options enabled has reached its deepest call: every
\* variable is assigned, one per nested call.
C18_Witness ==
  /\ pc = "searching"
  /\ options.forwardChecking /\ options.arcConsistency
  /\ SymmetricArcs(input) /\ input.arcs # <<>>
  /\ Cardinality(FramesOf("recursiveBacktracking")) = Len(input.variables) + 1
  /\ Cardinality(DOMAIN Top.a) = Len(input.variables)

====
